---- MODULE Spec2Model ----
(***************************************************************************)
(* A model of the tsp crate (src/src/lib.rs): the TSP structure with its   *)
(* distance matrix, the segment exchange, and the 2-opt and 3-opt local    *)
(* searches, one action per loop step.                                     *)
(*                                                                         *)
(* Vectors keep the source's indices: a Vec of length n is a function on   *)
(* 0..n-1.  A value of the float type N is an integer multiple of the      *)
(* format's smallest step, with a significand of Mant bits: +, -, * and    *)
(* sqrt round to the nearest such value, ties to even, as IEEE-754 does.   *)
(***************************************************************************)
EXTENDS Integers, Sequences, FiniteSets, TLC

\* Bounds of the model.
MaxN == 4        \* at most this many vertices in a problem
Mant == 3        \* bits in the significand of the float type N
Unit == 2        \* side of the square the near vertices are drawn from
MaxBlock == 2    \* longest block handed to exchange on its own

VARIABLES
    distances,   \* TSP.distances
    alg,         \* the method running: "none", "2opt", "3opt", "exchange"
    start,       \* the start argument: [some |-> BOOLEAN, val |-> Vec]
    path,        \* the working tour (the slice, for exchange on its own)
    stable,      \* the local `stable`
    a, b, c,     \* the loop counters (the arguments, for exchange on its own)
    pc,          \* "idle", "while", "for", "done", "panic"
    distance,    \* the length returned
    step,        \* the locals of the last loop body that ran
    moved,       \* whether the running call has accepted a move
    run,         \* 1, or 2 when the call re-runs on its own output
    prev,        \* the result of the first run, in the second
    blocks       \* the four blocks exchange is tried on, on its own

vars == <<distances, alg, start, path, stable, a, b, c, pc, distance,
          step, moved, run, prev, blocks>>

----------------------------------------------------------------------------
\* Vectors, indexed from 0.

Vec(s) == [i \in 0..(Len(s) - 1) |-> s[i + 1]]

Len0(v) == Cardinality(DOMAIN v)

Empty == Vec(<<>>)

Identity(n) == [i \in 0..(n - 1) |-> i]

SeqsUpTo(S, k) == UNION {[1..m -> S] : m \in 0..k}

IsPermutation(v, n) ==
    /\ DOMAIN v = 0..(n - 1)
    /\ \A i \in 0..(n - 1) : \E j \in DOMAIN v : v[j] = i

Permutations0(n) == {v \in [0..(n - 1) -> 0..(n - 1)] : IsPermutation(v, n)}

----------------------------------------------------------------------------
\* The float type N.

Abs(x) == IF x < 0 THEN -x ELSE x

RECURSIVE BitLen(_)
BitLen(m) == IF m = 0 THEN 0 ELSE 1 + BitLen(m \div 2)

RECURSIVE Pow2(_)
Pow2(e) == IF e = 0 THEN 1 ELSE 2 * Pow2(e - 1)

\* The spacing of the representable values around magnitude m.
Quantum(m) == IF BitLen(m) <= Mant THEN 1 ELSE Pow2(BitLen(m) - Mant)

\* F(x), with x evaluated once.
Once(F(_), x) == CHOOSE r \in {F(v) : v \in {x}} : TRUE

\* Round to nearest, ties to even.
RoundValue(x) ==
    LET m == Abs(x)
        q == Quantum(m)
        r == m % q
        lo == m - r
        up == IF 2 * r < q THEN lo
              ELSE IF 2 * r > q THEN lo + q
              ELSE IF (lo \div q) % 2 = 0 THEN lo ELSE lo + q
    IN  IF x < 0 THEN -up ELSE up

Round(x) == Once(RoundValue, x)

FAdd(x, y) == Round(x + y)
FSub(x, y) == Round(x - y)
FMul(x, y) == Round(x * y)

\* The correctly rounded square root.
FSqrt(x) ==
    LET r == CHOOSE k \in 0..x : k * k <= x /\ x < (k + 1) * (k + 1)
        q == Quantum(r)
        lo == r - (r % q)
        mid2 == IF q = 1 THEN r * r + r ELSE (lo + q \div 2) * (lo + q \div 2)
    IN  IF q = 1 THEN (IF x > mid2 THEN r + 1 ELSE r)
        ELSE IF x < mid2 THEN lo
        ELSE IF x > mid2 THEN lo + q
        ELSE IF (lo \div q) % 2 = 0 THEN lo ELSE lo + q

----------------------------------------------------------------------------
\* TSP: the distance matrix and its constructor.

euc2d(p, q) ==
    LET dx == FSub(p[1], q[1])
        dy == FSub(p[2], q[2])
    IN  FSqrt(FAdd(FMul(dx, dx), FMul(dy, dy)))

new_euc2d(vertices) ==
    LET v == Vec(vertices)
    IN  [i \in DOMAIN v |-> [j \in DOMAIN v |-> euc2d(v[i], v[j])]]

\* self.distances[path[i]][path[j]]
D(p, i, j) == distances[p[i]][p[j]]

\* Indexing self.distances with an element of the tour panics when the
\* element is no index of the matrix.
InBounds(p) == \A i \in DOMAIN p : p[i] \in DOMAIN distances

----------------------------------------------------------------------------
\* Slices.

\* path.swap(i, j)
Swap(p, i, j) == [p EXCEPT ![i] = p[j], ![j] = p[i]]

\* Faults of the reversal: the mirror copied in place with no temporary,
\* so that the second half keeps its elements; and the range begun one
\* position early, at a instead of a + 1.
ReverseNoTemp(p, lo, hi) ==
    [i \in DOMAIN p |->
        IF lo <= i /\ i < hi /\ 2 * i < lo + hi - 1 THEN p[lo + hi - 1 - i]
        ELSE p[i]]

ReverseFromA(p, lo, hi) ==
    [i \in DOMAIN p |->
        IF lo - 1 <= i /\ i < hi THEN p[lo - 1 + hi - 1 - i] ELSE p[i]]

\* path[lo..hi].reverse()
ReverseRange(p, lo, hi) ==
    [i \in DOMAIN p |-> IF lo <= i /\ i < hi THEN p[lo + hi - 1 - i] ELSE p[i]]

Min(x, y) == IF x <= y THEN x ELSE y

\* for i in 0..m { path.swap(a + i + 1, b + i + 1) }, from i on
RECURSIVE SwapLoop(_, _, _, _, _)
SwapLoop(p, lo, mid, i, m) ==
    IF i >= m THEN p
    ELSE SwapLoop(Swap(p, lo + i + 1, mid + i + 1), lo, mid, i + 1, m)

\* A fault of exchange: the pairwise swaps without the call on the rest of
\* the longer block.
exchange_once(p, lo, mid, hi) ==
    IF mid - lo = 0 \/ hi - mid = 0 THEN p
    ELSE SwapLoop(p, lo, mid, 0, Min(mid - lo, hi - mid))

RECURSIVE exchange(_, _, _, _)
exchange(p, lo, mid, hi) ==
    LET ab == mid - lo
        bc == hi - mid
        q == SwapLoop(p, lo, mid, 0, Min(ab, bc))
    IN  IF ab = 0 \/ bc = 0 THEN p
        ELSE IF ab < bc THEN exchange(q, mid, mid + ab, hi)
        ELSE IF ab > bc THEN exchange(q, lo + bc, mid, hi)
        ELSE q

----------------------------------------------------------------------------
\* The locals and loops of do_2opt and do_3opt.

n == Len0(path)

\* A fault of the acceptance test: the sign of the threshold turned.
AcceptsWorse(delta) == delta > 0

\* delta < N::from(-1e-10).unwrap(): every difference of two values of the
\* model is a whole number of steps, so it is below -1e-10 iff it is negative.
Accepts(delta) == delta < 0

\* A fault of the loop: an accepted move that leaves `stable` as it was.
StableKept(st, accepted) == st

\* stable = false, in the branch of an accepted move
StableAfter(st, accepted) == IF accepted THEN FALSE ELSE st

\* The first b of the inner loop of do_2opt: for b in a + 2..n
FirstB2(x) == x + 2

\* The loops `for a in 0..n { for b in a + 2..n {` resumed at (x, y): the
\* next pair the body runs on, <<n, n>> when there is none.
RECURSIVE Seek2(_, _, _)
Seek2(x, y, len) ==
    IF x >= len THEN <<len, len>>
    ELSE IF y >= len THEN Seek2(x + 1, FirstB2(x + 1), len)
    ELSE <<x, y>>

\* The loops of do_3opt resumed at (x, y, z).
RECURSIVE Seek3(_, _, _, _)
Seek3(x, y, z, len) ==
    IF x >= len THEN <<len, len, len>>
    ELSE IF y >= len THEN Seek3(x + 1, x + 2, x + 3, len)
    ELSE IF z >= len THEN Seek3(x, y + 1, y + 2, len)
    ELSE <<x, y, z>>

\* delta of do_2opt
Delta2(p, x, y) ==
    LET len == Len0(p)
    IN  FSub(FSub(FAdd(D(p, x, y), D(p, x + 1, (y + 1) % len)),
                  D(p, x, x + 1)),
             D(p, y, (y + 1) % len))

Sum3(x, y, z) == FAdd(FAdd(x, y), z)

\* current of do_3opt
Current(p, x, y, z) ==
    Sum3(D(p, x, x + 1), D(p, y, y + 1), D(p, z, (z + 1) % Len0(p)))

\* swaps of do_3opt
Swaps(p, x, y, z) ==
    LET z1 == (z + 1) % Len0(p)
    IN  Vec(<< Sum3(D(p, x, x + 1), D(p, y, z), D(p, y + 1, z1)),
               Sum3(D(p, x, z), D(p, y + 1, y), D(p, x + 1, z1)),
               Sum3(D(p, x, y), D(p, x + 1, y + 1), D(p, z, z1)),
               Sum3(D(p, x, y + 1), D(p, z, y), D(p, x + 1, z1)),
               Sum3(D(p, x, y), D(p, x + 1, z), D(p, y + 1, z1)),
               Sum3(D(p, x, z), D(p, y + 1, x + 1), D(p, y, z1)),
               Sum3(D(p, x, y + 1), D(p, z, x + 1), D(p, y, z1)) >>)

\* for i in 1..swaps.len() { if swaps[i] < swaps[min] { min = i } }, from i on
RECURSIVE MinLoop(_, _, _)
MinLoop(sw, i, m) ==
    IF i >= Len0(sw) THEN m
    ELSE MinLoop(sw, i + 1, IF sw[i] < sw[m] THEN i ELSE m)

MinFrom(sw) == MinLoop(sw, 1, 0)

MinIndex(sw) == Once(MinFrom, sw)

\* A fault of the match: in case 5, the exchange made before the reversal.
TransformSwapped(k, p, x, y, z) ==
    CASE k = 0 -> ReverseRange(p, y + 1, z + 1)
      [] k = 1 -> ReverseRange(p, x + 1, z + 1)
      [] k = 2 -> ReverseRange(p, x + 1, y + 1)
      [] k = 3 -> exchange(ReverseRange(p, x + 1, y + 1), x, y, z)
      [] k = 4 -> ReverseRange(ReverseRange(p, x + 1, y + 1), y + 1, z + 1)
      [] k = 5 -> ReverseRange(exchange(p, x, y, z), y + 1, z + 1)
      [] k = 6 -> exchange(p, x, y, z)

\* match min { ... }
Transform(k, p, x, y, z) ==
    CASE k = 0 -> ReverseRange(p, y + 1, z + 1)
      [] k = 1 -> ReverseRange(p, x + 1, z + 1)
      [] k = 2 -> ReverseRange(p, x + 1, y + 1)
      [] k = 3 -> exchange(ReverseRange(p, x + 1, y + 1), x, y, z)
      [] k = 4 -> ReverseRange(ReverseRange(p, x + 1, y + 1), y + 1, z + 1)
      [] k = 5 -> exchange(ReverseRange(p, y + 1, z + 1), x, y, z)
      [] k = 6 -> exchange(p, x, y, z)

\* A fault of the summation: the edge from the last vertex back to the
\* first left out.
RECURSIVE SumLoopOpen(_, _, _)
SumLoopOpen(p, i, acc) ==
    IF i + 1 >= Len0(p) THEN acc
    ELSE SumLoopOpen(p, i + 1, FAdd(acc, D(p, i, i + 1)))

\* for i in 0..path.len() { distance = distance + ... }, from i on
RECURSIVE SumLoop(_, _, _)
SumLoop(p, i, acc) ==
    IF i >= Len0(p) THEN acc
    ELSE SumLoop(p, i + 1, FAdd(acc, D(p, i, (i + 1) % Len0(p))))

\* match start { None => (0..len).collect(), Some(path) => path.to_vec() }
StartPath(st) == IF st.some THEN st.val ELSE Identity(Len0(distances))

None == [some |-> FALSE, val |-> Empty]
Some(v) == [some |-> TRUE, val |-> v]

----------------------------------------------------------------------------
\* The inputs.

\* The vertices a problem is built from: the corners of a square of side
\* Unit, in the order of the crate's `square` test, and a second family with
\* vertices far enough away that sums with their distances round.
Far == Pow2(Mant + 1)

SquarePoints == << <<0, 0>>, <<Unit, Unit>>, <<0, Unit>>, <<Unit, 0>> >>

FarPoints == << <<0, 0>>, <<Unit, Unit>>, <<Far, 0>>, <<Far, Far>> >>

\* One list of vertices for every multiset of at most k of the points: the
\* other orders of the same vertices are the tours Some(start) starts from.
Problems(points, k) ==
    UNION {{[i \in 1..m |-> points[f[i]]] :
               f \in {g \in [1..m -> 1..Len(points)] :
                         \A i \in 1..(m - 1) : g[i] <= g[i + 1]}} :
           m \in 0..k}

\* Five scattered vertices, on which every case of the 3-opt step is
\* selected from some start tour.
Scattered == << <<4, 5>>, <<0, 7>>, <<6, 6>>, <<6, 5>>, <<7, 3>> >>

Vertices ==
    Problems(SquarePoints, MaxN) \cup Problems(FarPoints, MaxN)
        \cup {Scattered}

\* The start tours of the callers that keep to the documented use: none, or
\* a tour of all the vertices.
Starts == {None} \cup {Some(v) : v \in Permutations0(Len0(distances))}

\* Any start tour the signature admits: any indices, one of them past the
\* matrix, and any length up to one more than the matrix has rows.
AnyStarts ==
    {None} \cup {Some(Vec(s)) : s \in SeqsUpTo(0..Len0(distances),
                                               Len0(distances) + 1)}

\* A start tour InvalidTour is not about: a permutation of the indices.
ValidStart == (~start.some) \/ IsPermutation(start.val, Len0(distances))

NoResult == [distance |-> 0, path |-> Empty, moved |-> FALSE]

NoStep == [at |-> <<0, 0, 0>>, before |-> Empty, delta |-> 0, current |-> 0,
           swaps |-> Empty, min |-> 0, accepted |-> FALSE]

----------------------------------------------------------------------------
\* The state machine.

InitWith(d) ==
    /\ distances = d
    /\ alg = "none"
    /\ start = None
    /\ path = Empty
    /\ stable = FALSE
    /\ a = 0 /\ b = 0 /\ c = 0
    /\ pc = "idle"
    /\ distance = 0
    /\ step = NoStep
    /\ moved = FALSE
    /\ run = 1
    /\ prev = NoResult
    /\ blocks = <<>>

\* TSP::new_euc2d(&vertices)
Init == \E vertices \in Vertices : InitWith(new_euc2d(vertices))

\* The entry of do_2opt and do_3opt, up to the while loop.
Enter(m, st) ==
    /\ alg' = m
    /\ start' = st
    /\ path' = StartPath(st)
    /\ stable' = FALSE
    /\ a' = 0 /\ b' = 0 /\ c' = 0
    /\ pc' = "while"
    /\ distance' = 0
    /\ step' = NoStep
    /\ moved' = FALSE
    /\ UNCHANGED <<distances, blocks>>

Call(m, S) ==
    /\ pc = "idle"
    /\ \E st \in S : Enter(m, st)
    /\ UNCHANGED <<run, prev>>

do_2opt == Call("2opt", Starts)

do_3opt == Call("3opt", Starts)

\* while !stable { stable = true; for a in 0..n { for b in ..
Sweep ==
    /\ pc = "while"
    /\ ~stable
    /\ stable' = TRUE
    /\ LET at == IF alg = "2opt" THEN Seek2(0, FirstB2(0), n) \o <<0>>
                 ELSE Seek3(0, 1, 2, n)
       IN  /\ a' = at[1] /\ b' = at[2] /\ c' = at[3]
           /\ pc' = IF at[1] >= n THEN "while" ELSE "for"
    /\ UNCHANGED <<distances, alg, start, path, distance, step, moved, run,
                   prev, blocks>>

\* The body of the loops of do_2opt, for one pair (a, b).
Body2 ==
    /\ pc = "for"
    /\ alg = "2opt"
    /\ IF \E i \in {a, a + 1, b, (b + 1) % n} : path[i] \notin DOMAIN distances
       THEN /\ pc' = "panic"
            /\ UNCHANGED <<path, stable, a, b, c, step, moved>>
       ELSE \E delta \in {Delta2(path, a, b)}, at \in {Seek2(a, b + 1, n)} :
            LET accepted == Accepts(delta)
            IN  /\ path' = IF accepted THEN ReverseRange(path, a + 1, b + 1)
                           ELSE path
                /\ stable' = StableAfter(stable, accepted)
                /\ moved' = (moved \/ accepted)
                /\ step' = [NoStep EXCEPT !.at = <<a, b, 0>>,
                                          !.before = path,
                                          !.delta = delta,
                                          !.accepted = accepted]
                /\ a' = at[1] /\ b' = at[2] /\ c' = 0
                /\ pc' = IF at[1] >= n THEN "while" ELSE "for"
    /\ UNCHANGED <<distances, alg, start, distance, run, prev, blocks>>

\* The body of the loops of do_3opt, for one triple (a, b, c).
Body3 ==
    /\ pc = "for"
    /\ alg = "3opt"
    /\ IF \E i \in {a, a + 1, b, b + 1, c, (c + 1) % n} :
              path[i] \notin DOMAIN distances
       THEN /\ pc' = "panic"
            /\ UNCHANGED <<path, stable, a, b, c, step, moved>>
       ELSE \E current \in {Current(path, a, b, c)},
               swaps \in {Swaps(path, a, b, c)} :
            \E min \in {MinIndex(swaps)}, at \in {Seek3(a, b, c + 1, n)} :
            LET accepted == Accepts(FSub(swaps[min], current))
            IN  /\ path' = IF accepted THEN Transform(min, path, a, b, c)
                           ELSE path
                /\ stable' = StableAfter(stable, accepted)
                /\ moved' = (moved \/ accepted)
                /\ step' = [NoStep EXCEPT !.at = <<a, b, c>>,
                                          !.before = path,
                                          !.current = current,
                                          !.swaps = swaps,
                                          !.min = min,
                                          !.accepted = accepted]
                /\ a' = at[1] /\ b' = at[2] /\ c' = at[3]
                /\ pc' = IF at[1] >= n THEN "while" ELSE "for"
    /\ UNCHANGED <<distances, alg, start, distance, run, prev, blocks>>

\* The loop is left: the length is summed and (distance, path) returned.
Return ==
    /\ pc = "while"
    /\ stable
    /\ IF InBounds(path)
       THEN /\ distance' = SumLoop(path, 0, 0)
            /\ pc' = "done"
       ELSE /\ pc' = "panic"
            /\ UNCHANGED distance
    /\ UNCHANGED <<distances, alg, start, path, stable, a, b, c, step, moved,
                   run, prev, blocks>>

\* The caller runs the same method again, on the tour it returned.
Rerun ==
    /\ pc = "done"
    /\ run = 1
    /\ run' = 2
    /\ prev' = [distance |-> distance, path |-> path, moved |-> moved]
    /\ Enter(alg, Some(path))

Next == do_2opt \/ do_3opt \/ Sweep \/ Body2 \/ Body3 \/ Return \/ Rerun

Spec == Init /\ [][Next]_vars

----------------------------------------------------------------------------
\* The other callers.

\* A caller that passes any start tour the signature admits, on a problem
\* of fewer than MaxN vertices.
InitSmall ==
    \E vertices \in Problems(SquarePoints, MaxN - 1) :
        InitWith(new_euc2d(vertices))

do_2opt_any == Call("2opt", AnyStarts)

do_3opt_any == Call("3opt", AnyStarts)

NextAny == do_2opt_any \/ do_3opt_any \/ Sweep \/ Body2 \/ Body3 \/ Return

AnyStartSpec == InitSmall /\ [][NextAny]_vars

\* The program runs on: a call that can take a step takes it.
FairSpec == Spec /\ WF_vars(Next)

\* exchange on its own, as the crate's `exchange` test calls it: on the
\* concatenation of four blocks, the first not empty.
Blocks == SeqsUpTo({0, 1}, MaxBlock)

InitExchange ==
    \E v1 \in Blocks \ {<<>>}, v2 \in Blocks, v3 \in Blocks, v4 \in Blocks :
        /\ blocks = <<v1, v2, v3, v4>>
        /\ path = Vec(v1 \o v2 \o v3 \o v4)
        /\ a = Len(v1) - 1
        /\ b = Len(v1) - 1 + Len(v2)
        /\ c = Len(v1) - 1 + Len(v2) + Len(v3)
        /\ alg = "exchange"
        /\ pc = "idle"
        /\ distances = Empty
        /\ start = None
        /\ stable = FALSE
        /\ distance = 0
        /\ step = NoStep
        /\ moved = FALSE
        /\ run = 1
        /\ prev = NoResult

\* TSP::<f64>::exchange(&mut v1234, a, b, c)
Exchange ==
    /\ pc = "idle"
    /\ alg = "exchange"
    /\ path' = exchange(path, a, b, c)
    /\ pc' = "done"
    /\ UNCHANGED <<distances, alg, start, stable, a, b, c, distance, step,
                   moved, run, prev, blocks>>

ExchangeSpec == InitExchange /\ [][Exchange]_vars

----------------------------------------------------------------------------
\* What the claims are stated with.

\* A call is past its entry and has not panicked.
Running == pc \in {"while", "for", "done"}

\* The last loop body that ran was one of do_3opt (of do_2opt).
Stepped3 == alg = "3opt" /\ step.before # Empty
Stepped2 == alg = "2opt" /\ step.before # Empty

\* The cyclic length of a tour, in exact arithmetic.
RECURSIVE ExactSum(_, _)
ExactSum(p, i) ==
    IF i >= Len0(p) THEN 0
    ELSE D(p, i, (i + 1) % Len0(p)) + ExactSum(p, i + 1)

CyclicLength(p) == ExactSum(p, 0)

\* The blocks of a tour: the elements at positions lo+1..hi, as a sequence.
Block(p, lo, hi) == [i \in 1..(hi - lo) |-> p[lo + i]]

Rev(s) == [i \in 1..Len(s) |-> s[Len(s) + 1 - i]]

----------------------------------------------------------------------------
\* C1: called with no start tour or with a permutation of 0..n-1, do_2opt
\* and do_3opt hold a permutation of 0..n-1 as working tour after every
\* accepted move, and return one.
C1_PermutationInvariant ==
    Running => IsPermutation(path, Len0(distances))

\* A 3-opt call that started from a given tour of MaxN vertices has
\* accepted a move and returned.
C1_Witness ==
    /\ pc = "done" /\ alg = "3opt" /\ run = 1
    /\ moved /\ start.some /\ n = MaxN

\* C2: no accepted move writes position 0 of the working tour: the tour
\* holds at position 0 what the start tour held there, and a tour returned
\* from the default start begins with 0.
C2_FirstStays ==
    (Running /\ n > 0) =>
        /\ path[0] = StartPath(start)[0]
        /\ (run = 1 /\ ~start.some) => path[0] = 0

\* A call whose start tour begins with another vertex than 0 has accepted
\* a move and returned.
C2_Witness ==
    /\ pc = "done" /\ run = 1 /\ moved
    /\ start.some /\ start.val[0] # 0
    /\ step.before # Empty

\* C7: run again on the tour it returned, an optimizer accepts no move and
\* returns the same tour and the same length.
C7_Idempotent ==
    (run = 2 /\ Running) =>
        /\ ~moved
        /\ pc = "done" => (distance = prev.distance /\ path = prev.path)

\* The second run has returned, after a first run that accepted a move.
C7_Witness == run = 2 /\ pc = "done" /\ prev.moved

\* The square of the crate's `square` test, and its matrix: the four sides
\* are Unit long and the two diagonals longer, less than twice as long.
Square == new_euc2d(SquarePoints)

IsSquare(d) ==
    /\ d = Square
    /\ \A i, j \in {0, 1, 2, 3} :
          d[i][j] = IF i = j THEN 0
                    ELSE IF {i, j} \in {{0, 1}, {2, 3}} THEN d[0][1]
                    ELSE Unit
    /\ Unit < d[0][1] /\ d[0][1] < 2 * Unit

\* C8: on the square, do_2opt with no start tour returns the tour
\* [0, 2, 1, 3], of length four sides.
C8_Square ==
    (IsSquare(distances) /\ alg = "2opt" /\ ~start.some /\ run = 1
        /\ pc = "done")
    => (path = Vec(<<0, 2, 1, 3>>) /\ distance = 4 * Unit)

\* do_2opt(None) has returned on the square, having accepted a move.
C8_Witness ==
    /\ IsSquare(distances) /\ alg = "2opt" /\ ~start.some /\ run = 1
    /\ pc = "done" /\ moved

\* C9: on at most two points and with no start tour, both optimizers accept
\* no move and return the identity tour with its cyclic length: 0 for no
\* point and for one, d(0,1) + d(1,0) for two.
C9_Small ==
    (Len0(distances) <= 2 /\ Running /\ ~start.some /\ run = 1) =>
        /\ ~moved
        /\ path = Identity(Len0(distances))
        /\ pc = "done" =>
              distance = IF Len0(distances) = 2
                         THEN FAdd(distances[0][1], distances[1][0])
                         ELSE 0

\* do_3opt(None) has returned on two points that are apart.
C9_Witness ==
    /\ Len0(distances) = 2 /\ distances[0][1] > 0
    /\ alg = "3opt" /\ ~start.some /\ run = 1 /\ pc = "done"

\* The reconnection table of the 3-opt step.  An edge <<i, j>> joins the
\* vertices at positions i and j of the tour the step found; z1 is c + 1
\* modulo the length.  Case 0 joins (a, a+1), (b, c), (b+1, c+1).
TableEdges(x, y, z, z1) ==
    Vec(<< << <<x, x + 1>>, <<y, z>>, <<y + 1, z1>> >>,
           << <<x, z>>, <<y + 1, y>>, <<x + 1, z1>> >>,
           << <<x, y>>, <<x + 1, y + 1>>, <<z, z1>> >>,
           << <<x, y + 1>>, <<z, y>>, <<x + 1, z1>> >>,
           << <<x, y>>, <<x + 1, z>>, <<y + 1, z1>> >>,
           << <<x, z>>, <<y + 1, x + 1>>, <<y, z1>> >>,
           << <<x, y + 1>>, <<z, x + 1>>, <<y, z1>> >> >>)

\* The table as first stated: case 0 joins (a, b), (a+1, c), (b+1, c+1).
StatedEdges(x, y, z, z1) ==
    [TableEdges(x, y, z, z1) EXCEPT
        ![0] = << <<x, y>>, <<x + 1, z>>, <<y + 1, z1>> >>]

\* The cost of a case: the sum of the distances over its three edges.
CaseCost(p, e) ==
    Sum3(D(p, e[1][1], e[1][2]), D(p, e[2][1], e[2][2]), D(p, e[3][1], e[3][2]))

\* The tour A B C T, with A = [..a], B = (a, b], C = (b, c], after the
\* transform the table lists for case k.
TableTransform(k, p, x, y, z) ==
    LET A == Block(p, -1, x)
        B == Block(p, x, y)
        C == Block(p, y, z)
        T == Block(p, z, Len0(p) - 1)
    IN  Vec(CASE k = 0 -> A \o B \o Rev(C) \o T
              [] k = 1 -> A \o Rev(B \o C) \o T
              [] k = 2 -> A \o Rev(B) \o C \o T
              [] k = 3 -> A \o C \o Rev(B) \o T
              [] k = 4 -> A \o Rev(B) \o Rev(C) \o T
              [] k = 5 -> A \o Rev(C) \o B \o T
              [] k = 6 -> A \o C \o B \o T)

\* The step of do_3opt on record evaluated the costs of the edges `edges`
\* lists, selected the first cheapest case, and applied its transform if it
\* accepted the move.
StepFollows(edges) ==
    LET p == step.before
        e == edges
    IN  /\ step.swaps = [k \in 0..6 |-> CaseCost(p, e[k])]
        /\ \A k \in 0..6 : step.swaps[step.min] <= step.swaps[k]
        /\ \A k \in 0..(step.min - 1) : step.swaps[step.min] < step.swaps[k]
        /\ path = IF step.accepted
                  THEN TableTransform(step.min, p, step.at[1], step.at[2],
                                      step.at[3])
                  ELSE p

EdgesAt(T(_, _, _, _)) ==
    T(step.at[1], step.at[2], step.at[3], (step.at[3] + 1) % Len0(step.before))

\* C10, as stated: in every step of do_3opt the seven costs are the sums
\* over the edges of the table with case 0 = (a,b), (a+1,c), (b+1,c+1), and
\* the transform applied is the one listed for the selected case.
C10_AsStated == Stepped3 => StepFollows(EdgesAt(StatedEdges))

\* C10, amended: the same with case 0 = (a,a+1), (b,c), (b+1,c+1), the
\* edges that reversing (b, c] makes.
C10_Table == Stepped3 => StepFollows(EdgesAt(TableEdges))

\* A step of do_3opt selected case 5 and applied it: a reversal, then an
\* exchange of blocks of different lengths.
C10_Witness ==
    /\ Stepped3 /\ step.accepted /\ step.min = 5
    /\ step.at[2] - step.at[1] # step.at[3] - step.at[2]

\* C6: exchange on V1 V2 V3 V4, with a = |V1| - 1, b = a + |V2| and
\* c = b + |V3|, leaves V1 V3 V2 V4: the two blocks swapped, each in its
\* order, and every other position as it was.
C6_ExchangeSwapsBlocks ==
    (alg = "exchange" /\ pc = "done") =>
        path = Vec(blocks[1] \o blocks[3] \o blocks[2] \o blocks[4])

\* exchange has returned on two blocks of different lengths, neither empty,
\* that it had to move.
C6_Witness ==
    /\ alg = "exchange" /\ pc = "done"
    /\ Len(blocks[2]) = 1 /\ Len(blocks[3]) = 2
    /\ path # Vec(blocks[1] \o blocks[2] \o blocks[3] \o blocks[4])

\* C3: a start tour of another length than the matrix, or that is no
\* permutation of its indices, is rejected before any step of the
\* optimization, and no result is returned.
C3_InvalidTourRejected ==
    (pc # "idle" /\ ~ValidStart) => (step = NoStep /\ pc # "done")

Symmetric(d) ==
    \A i, j \in DOMAIN d : d[i][j] = d[j][i] /\ d[i][j] >= 0

\* The delta the last loop body computed.
StepDelta(st) ==
    IF alg = "2opt" THEN st.delta ELSE FSub(st.swaps[st.min], st.current)

\* C4: on a symmetric non-negative matrix and from a permutation, no loop
\* body lengthens the tour, an accepted move shortens it by the delta that
\* was computed, and the tour returned is no longer than the start tour.
C4_LengthDecreases ==
    [][(Symmetric(distances) /\ ValidStart /\ pc = "for") =>
          /\ CyclicLength(path') <= CyclicLength(path)
          /\ step'.accepted =>
                /\ CyclicLength(path') < CyclicLength(path)
                /\ CyclicLength(path') - CyclicLength(path) = StepDelta(step')
          /\ CyclicLength(path') <= CyclicLength(StartPath(start))]_vars

\* C5: on a symmetric non-negative matrix and from a permutation, every
\* call of do_2opt and of do_3opt returns.
C5_Terminates ==
    [](pc \in {"while", "for"} => <>(pc = "done"))
====
